---- MODULE Spec2Model ----
(***************************************************************************)
(* Discrete-event model of the two ward simulations of the repository:     *)
(*   "dash"  : run_hospital_simulation          (src/simulation.py)        *)
(*   "typed" : the Senior/Junior staff script   (src/assets/simulation.py) *)
(* Both run on the simpy engine: an event queue ordered by                 *)
(* (time, priority, event id), generator processes that run until their    *)
(* next yield, and Resource pools with a users list and a put queue.       *)
(* One action is one turn of env.step(): the earliest event is popped and  *)
(* its callbacks run, which resumes at most one process up to its next     *)
(* yield.  The event a process triggers when its generator ends has no     *)
(* callback and is left out.  Time is counted in whole units, so events    *)
(* may fall on the same instant; they are then ordered as simpy orders     *)
(* them.  The capacities, the workload factor and the horizon, which the   *)
(* typed-staff script fixes as module constants, are configuration here.   *)
(***************************************************************************)
EXTENDS Integers, Sequences, FiniteSets, TLC

VARIABLES
    program,        \* which of the two programs runs: "dash" or "typed"
    params,         \* the configuration of the run
    phase,          \* "setup", "running", "done" (horizon reached), "error"
    now,            \* env.now
    queue,          \* the environment's event queue (a set of event records)
    eid,            \* the environment's event id counter
    patient_id,     \* the patient source's counter
    pat,            \* the patient processes, indexed by patient id
    res,            \* the simpy Resource pools: capacity, users, put queue
    beds_in_use,    \* Hospital.beds_in_use (dash)
    patient_log,    \* the patient log
    occupancy_log,  \* Hospital.occupancy_log (dash)
    rng,            \* the seeded random stream: position and values drawn
    run_no,         \* number of the run within the process
    prev,           \* the logs returned by the previous run
    hospital        \* Hospital.times and Hospital.queue_length (queue evolution)

vars == <<program, params, phase, now, queue, eid, patient_id, pat, res,
          beds_in_use, patient_log, occupancy_log, rng, run_no, prev, hospital>>

----------------------------------------------------------------------------
(* Bounds of the model *)

Horizon == 5        \* the run's horizon, in time units
ReplayHorizon == 3  \* the horizon of a run that is run a second time
MaxBeds == 2        \* largest bed capacity configured
MaxStaff == 2       \* largest capacity configured for a staff pool
MaxDraw == 2        \* largest value of an exponential draw, in time units

(* Program constants *)

URGENT == TRUE        \* simpy's priority of Initialize and of run()'s stop event
NORMAL == FALSE       \* simpy's priority of every other event
AVG_TREATMENT_TIME_SENIOR_MINUTES == 3600
AVG_TREATMENT_TIME_JUNIOR_MINUTES == 5040
MINS_IN_DAY == 1440

Draws == 1..MaxDraw
RandDraws == {25, 75}           \* np.random.rand(), in percent

Baseline == "Baseline Model (Homogeneous Staff)"
Experience == "Experience-Based Model (Heterogeneous Staff)"
Workload == "Workload-Dependent Model (Dynamic Service Rates)"
Unknown == "Unknown"

----------------------------------------------------------------------------
(* Rationals as pairs <<numerator, denominator>>, denominator > 0 *)

RMul(a, b) == <<a[1] * b[1], a[2] * b[2]>>
RInv(a) == <<a[2], a[1]>>
RDiv(a, b) == RMul(a, RInv(b))
RAdd(a, b) == <<a[1] * b[2] + b[1] * a[2], a[2] * b[2]>>
RSub(a, b) == <<a[1] * b[2] - b[1] * a[2], a[2] * b[2]>>
RLess(a, b) == a[1] * b[2] < b[1] * a[2]
REq(a, b) == a[1] * b[2] = b[1] * a[2]
RMin(a, b) == IF RLess(b, a) THEN b ELSE a
RMax(a, b) == IF RLess(a, b) THEN b ELSE a
RInt(n) == <<n, 1>>

----------------------------------------------------------------------------
(* The configurations *)

DashParams(h) ==
    { [scenario |-> sc, num_beds |-> b, num_staff |-> c,
       senior_staff_mix |-> 100, senior_service_days |-> 3,
       junior_service_days |-> 3, workload_factor_alpha |-> <<3, 2>>,
       arrival_rate |-> 10, horizon |-> h] :
         sc \in {Baseline, Unknown}, b \in 0..MaxBeds, c \in 0..MaxStaff }
    \cup
    { [scenario |-> Experience, num_beds |-> b, num_staff |-> c,
       senior_staff_mix |-> m, senior_service_days |-> 3,
       junior_service_days |-> 5, workload_factor_alpha |-> <<3, 2>>,
       arrival_rate |-> 10, horizon |-> h] :
         b \in 1..MaxBeds, c \in 1..MaxStaff, m \in {0, 50} }
    \cup
    { [scenario |-> Workload, num_beds |-> b, num_staff |-> c,
       senior_staff_mix |-> 100, senior_service_days |-> 3,
       junior_service_days |-> 3, workload_factor_alpha |-> a,
       arrival_rate |-> 10, horizon |-> h] :
         b \in 1..MaxBeds, c \in 1..MaxStaff, a \in {<<1, 2>>, <<3, 2>>} }

TypedParams(h) ==
    { [NUM_BEDS |-> b, NUM_SENIOR_STAFF |-> s, NUM_JUNIOR_STAFF |-> j,
       ALPHA |-> a, horizon |-> h] :
         b \in 0..MaxBeds, s \in 0..MaxStaff, j \in 0..MaxStaff,
         a \in {<<1, 4>>, <<1, 1>>} }

----------------------------------------------------------------------------
(* The random stream.  A seeded stream is a fixed sequence of values; the  *)
(* values are chosen when first read and, when the stream is recorded,     *)
(* read again after a re-seed.  exponential(scale) is scale times the      *)
(* stream's standard draw, so a recorded value is reused only for the same *)
(* scale.                                                                  *)

DrawFrom(r, scale, vals) ==
    LET i == r.pos + 1 IN
    IF ~r.record
    THEN { [value |-> v, rng |-> r] : v \in vals }
    ELSE IF i <= Len(r.tape) /\ r.tape[i].scale = scale
    THEN { [value |-> r.tape[i].value, rng |-> [r EXCEPT !.pos = i]] }
    ELSE { [value |-> v,
            rng |-> [r EXCEPT !.pos = i,
                       !.tape = IF i <= Len(r.tape)
                                THEN [r.tape EXCEPT ![i] = [scale |-> scale, value |-> v]]
                                ELSE Append(r.tape, [scale |-> scale, value |-> v])]] :
            v \in vals }

\* faulty variant: the stream is not re-seeded: a run continues where the last stopped
seed_skipped(r) == r

\* np.random.seed(RANDOM_SEED): the stream restarts at its first value
seed(r) == [r EXCEPT !.pos = 0]

----------------------------------------------------------------------------
(* The event queue *)

Ev(t, urgent, id, kind, pid, pool) ==
    [t |-> t, urgent |-> urgent, eid |-> id, kind |-> kind, pid |-> pid, pool |-> pool]

Before(a, b) ==
    \/ a.t < b.t
    \/ a.t = b.t /\ a.urgent /\ ~b.urgent
    \/ a.t = b.t /\ a.urgent = b.urgent /\ a.eid < b.eid

NextEvent == CHOOSE e \in queue : \A f \in queue \ {e} : Before(e, f)

\* faulty variant: events are processed whatever their time, the horizon is ignored
Fires_past_horizon(kind) ==
    /\ phase = "running"
    /\ queue # {}
    /\ NextEvent.kind = kind

\* env.step() may process an event of this kind now
Fires(kind) ==
    /\ phase = "running"
    /\ queue # {}
    /\ NextEvent.t < params.horizon
    /\ NextEvent.kind = kind

----------------------------------------------------------------------------
(* simpy.Resource *)

Resource(capacity) == [capacity |-> capacity, users |-> <<>>, put_queue |-> <<>>]

Remove(s, x) == SelectSeq(s, LAMBDA y : y # x)

count(r) == Len(r.users)

\* faulty variant: the head of the put queue is granted whatever the capacity
CanGrant_ignoring_capacity(r) == r.put_queue # <<>>

\* BaseResource._trigger_put with Resource._do_put: the head of the put
\* queue is granted when a slot is free; nothing else is tried.
CanGrant(r) == r.put_queue # <<>> /\ Len(r.users) < r.capacity

\* faulty variant: the newest request of the put queue is granted first
_trigger_put_newest_first(r) ==
    IF CanGrant(r)
    THEN [r EXCEPT !.users = Append(r.users, r.put_queue[Len(r.put_queue)]),
                   !.put_queue = SubSeq(r.put_queue, 1, Len(r.put_queue) - 1)]
    ELSE r

_trigger_put(r) ==
    IF CanGrant(r)
    THEN [r EXCEPT !.users = Append(r.users, Head(r.put_queue)),
                   !.put_queue = Tail(r.put_queue)]
    ELSE r

\* Resource.request(): the request joins the put queue, then _trigger_put
request(r, pid) == _trigger_put([r EXCEPT !.put_queue = Append(r.put_queue, pid)])

\* Event.succeed() of the request that the step r -> r2 granted, if any:
\* the request event is scheduled at the current time t with event id id
Granted(r, r2, pool, t, id) ==
    IF Len(r2.users) > Len(r.users)
    THEN {Ev(t, NORMAL, id, "req", r2.users[Len(r2.users)], pool)}
    ELSE {}

\* faulty variant: a release that leaves the request among the users
release_forgotten(r, pid) == r

\* Resource.release(): Release._do_get removes the request from users
release(r, pid) == [r EXCEPT !.users = Remove(r.users, pid)]

----------------------------------------------------------------------------
(* The state before a run *)

NaN == "nan"

InitWith(record, h) ==
    /\ program \in {"dash", "typed"}
    /\ params \in (IF program = "dash" THEN DashParams(h) ELSE TypedParams(h))
    /\ phase = "setup"
    /\ now = 0
    /\ queue = {}
    /\ eid = 0
    /\ patient_id = 0
    /\ pat = <<>>
    /\ res = <<>>
    /\ beds_in_use = 0
    /\ patient_log = <<>>
    /\ occupancy_log = <<>>
    /\ rng = [pos |-> 0, tape |-> <<>>, record |-> record]
    /\ run_no = 1
    /\ prev = <<>>
    /\ hospital = [times |-> <<>>, queue_length |-> <<>>]

\* the horizons of the runs: a run of one time unit ends before the first
\* arrival, the others see arrivals, balks and discharges
Init == \E h \in {1, Horizon} : InitWith(FALSE, h)

----------------------------------------------------------------------------
(* Construction of a run *)

\* the capacities of the simpy.Resource pools the program constructs
Capacities ==
    IF program = "dash"
    THEN [pool \in {"staff"} |-> params.num_staff]
    ELSE [pool \in {"beds", "staff_senior", "staff_junior"} |->
            CASE pool = "beds" -> params.NUM_BEDS
              [] pool = "staff_senior" -> params.NUM_SENIOR_STAFF
              [] pool = "staff_junior" -> params.NUM_JUNIOR_STAFF]

\* simpy.Resource(env, capacity) raises ValueError unless capacity > 0
ResourceRaises == \E pool \in DOMAIN Capacities : Capacities[pool] <= 0

\* faulty variant: the record is inserted at the front of the log
append_at_front(log, rec) == <<rec>> \o log

\* patient_log.append(record)
append(log, rec) == Append(log, rec)

\* a fresh patient log: Hospital.patient_log = [] / patient_log = []
fresh_log == <<>>

\* np.random.seed; env; the pools; env.process(source); env.run(until)
Setup ==
    /\ phase = "setup"
    /\ rng' = seed(rng)
    /\ now' = 0
    /\ patient_id' = 0
    /\ pat' = <<>>
    /\ beds_in_use' = 0
    /\ patient_log' = fresh_log
    /\ occupancy_log' = <<>>
    /\ IF ResourceRaises
       THEN /\ phase' = "error"
            /\ res' = <<>>
            /\ queue' = {}
            /\ eid' = 0
       ELSE /\ phase' = "running"
            /\ res' = [pool \in DOMAIN Capacities |-> Resource(Capacities[pool])]
            \* event 0 initialises the source, event 1 is run()'s stop event
            /\ queue' = {Ev(0, URGENT, 0, "source", 0, "")}
            /\ eid' = 2
    /\ UNCHANGED <<hospital, program, params, run_no, prev>>

\* env.run(until): the stop event is URGENT and older than every event due
\* at the horizon, so the run ends before any event with t >= horizon
Finish ==
    /\ phase = "running"
    /\ queue = {} \/ NextEvent.t >= params.horizon
    /\ phase' = "done"
    /\ now' = params.horizon
    /\ UNCHANGED <<hospital, program, params, queue, eid, patient_id, pat, res,
                   beds_in_use, patient_log, occupancy_log, rng, run_no, prev>>

----------------------------------------------------------------------------
(* The patient source: patient_source / patient_generator *)

interarrival_scale ==
    IF program = "dash" THEN <<MINS_IN_DAY, params.arrival_rate>>
    ELSE <<MINS_IN_DAY, 6>>

\* the locals of a patient process.  n is the occupancy read for the rate;
\* beds_at_arrival and beds_at_start record the occupied beds seen by the
\* first turn and by the turn that starts the treatment; scale is the
\* argument of np.random.exponential; senior_done, junior_done and cond
\* are the processed flags of the two staff requests and the triggered
\* flag of the AnyOf condition.
NewPatient(t) ==
    [pc |-> "init", arrival_time |-> t, bed_assign_time |-> -1,
     staff_assign_time |-> -1, treatment_time |-> -1, scale |-> <<0, 1>>,
     n |-> -1, beds_at_start |-> -1, beds_at_arrival |-> -1,
     staff_type |-> "N/A",
     senior_done |-> FALSE, junior_done |-> FALSE, cond |-> FALSE]

\* the source's first turn, or its turn after a timeout: (spawn a patient
\* and) yield env.timeout(exponential(...))
Source ==
    /\ \/ Fires("source")
       \/ Fires("arrival")
    /\ LET e == NextEvent
           spawn == e.kind = "arrival"
           id == IF spawn THEN eid + 1 ELSE eid
       IN /\ now' = e.t
          /\ patient_id' = IF spawn THEN patient_id + 1 ELSE patient_id
          /\ pat' = IF spawn THEN Append(pat, NewPatient(e.t)) ELSE pat
          /\ \E d \in DrawFrom(rng, interarrival_scale, Draws) :
                /\ rng' = d.rng
                /\ queue' = (queue \ {e})
                      \cup (IF spawn
                            THEN {Ev(e.t, URGENT, eid, "init", patient_id + 1, "")}
                            ELSE {})
                      \cup {Ev(e.t + d.value, NORMAL, id, "arrival", 0, "")}
          /\ eid' = id + 1
    /\ UNCHANGED <<hospital, program, params, phase, res, beds_in_use, patient_log,
                   occupancy_log, run_no, prev>>

----------------------------------------------------------------------------
(* run_hospital_simulation: Hospital.patient and get_treatment_time *)

\* faulty variant: the workload is the occupied beds per member of staff
get_treatment_time_by_beds ==
    LET scenario == params.scenario
        senior_mins == <<params.senior_service_days * MINS_IN_DAY, 1>>
        junior_mins == <<params.junior_service_days * MINS_IN_DAY, 1>>
        alpha == params.workload_factor_alpha
        patients_per_staff == <<beds_in_use, params.num_staff>>
        workload_factor ==
            IF RLess(alpha, patients_per_staff)
            THEN RAdd(RInt(1), RSub(patients_per_staff, alpha))
            ELSE RInt(1)
        Exp(r, scale, type) ==
            { [treatment_time |-> d.value, scale |-> scale, rng |-> d.rng,
               staff_type |-> type] : d \in DrawFrom(r, scale, Draws) }
    IN  CASE scenario = Baseline -> Exp(rng, senior_mins, "Senior")
          [] scenario = Experience ->
                UNION { Exp(u.rng,
                            IF u.value < params.senior_staff_mix
                            THEN senior_mins ELSE junior_mins,
                            IF u.value < params.senior_staff_mix
                            THEN "Senior" ELSE "Junior") :
                        u \in DrawFrom(rng, <<1, 1>>, RandDraws) }
          [] scenario = Workload ->
                Exp(rng, RMul(senior_mins, workload_factor), "Senior")
          [] OTHER -> { [treatment_time |-> 0, scale |-> <<0, 1>>, rng |-> rng,
                         staff_type |-> "N/A"] }

\* the outcomes of Hospital.get_treatment_time(): the drawn time, the scale
\* passed to np.random.exponential (in minutes), the stream afterwards
get_treatment_time ==
    LET scenario == params.scenario
        senior_mins == <<params.senior_service_days * MINS_IN_DAY, 1>>
        junior_mins == <<params.junior_service_days * MINS_IN_DAY, 1>>
        alpha == params.workload_factor_alpha
        patients_per_staff == <<Len(res["staff"].users), params.num_staff>>
        workload_factor ==
            IF RLess(alpha, patients_per_staff)
            THEN RAdd(RInt(1), RSub(patients_per_staff, alpha))
            ELSE RInt(1)
        Exp(r, scale, type) ==
            { [treatment_time |-> d.value, scale |-> scale, rng |-> d.rng,
               staff_type |-> type] : d \in DrawFrom(r, scale, Draws) }
    IN  CASE scenario = Baseline -> Exp(rng, senior_mins, "Senior")
          [] scenario = Experience ->
                UNION { Exp(u.rng,
                            IF u.value < params.senior_staff_mix
                            THEN senior_mins ELSE junior_mins,
                            IF u.value < params.senior_staff_mix
                            THEN "Senior" ELSE "Junior") :
                        u \in DrawFrom(rng, <<1, 1>>, RandDraws) }
          [] scenario = Workload ->
                Exp(rng, RMul(senior_mins, workload_factor), "Senior")
          [] OTHER -> { [treatment_time |-> 0, scale |-> <<0, 1>>, rng |-> rng,
                         staff_type |-> "N/A"] }

DashBalkedRecord(p) ==
    [PatientID |-> p, ArrivalTime |-> pat[p].arrival_time, WaitTime |-> NaN,
     TreatmentTime |-> NaN, TotalTime |-> NaN, Status |-> "Balked (No Beds)",
     TreatedBy |-> "N/A"]

DashDischargedRecord(p, t) ==
    [PatientID |-> p, ArrivalTime |-> pat[p].arrival_time,
     WaitTime |-> pat[p].staff_assign_time - pat[p].arrival_time,
     TreatmentTime |-> pat[p].treatment_time,
     TotalTime |-> t - pat[p].arrival_time,
     Status |-> "Discharged", TreatedBy |-> "Staff"]

\* faulty variant: an off-by-one bed-full test
DashBedsFull_off_by_one == beds_in_use > params.num_beds

\* faulty variant: a bed-full test that turns patients away one bed early
DashBedsFull_one_early == beds_in_use + 1 >= params.num_beds

\* faulty variant: a bed-full test that takes a capacity of 0 for "no limit"
DashBedsFull_zero_unlimited ==
    params.num_beds > 0 /\ beds_in_use >= params.num_beds

\* the bed-full test of Hospital.patient
DashBedsFull == beds_in_use >= params.num_beds

\* faulty variant: the admission is sampled before beds_in_use is incremented
admission_sample_before_increment(t) == <<t, beds_in_use>>

\* the sample (env.now, beds_in_use) appended after `self.beds_in_use += 1`
admission_sample(t) == <<t, beds_in_use + 1>>

\* faulty variant: the discharge is sampled before beds_in_use is decremented
discharge_sample_before_decrement(t) == <<t, beds_in_use>>

\* the sample (env.now, beds_in_use) appended after `self.beds_in_use -= 1`
discharge_sample(t) == <<t, beds_in_use - 1>>

\* Hospital.patient up to `yield req`: balk, or take a bed and request staff
DashArrive ==
    /\ program = "dash"
    /\ Fires("init")
    /\ LET e == NextEvent
           p == e.pid
       IN /\ now' = e.t
          /\ IF DashBedsFull
             THEN /\ patient_log' = append(patient_log, DashBalkedRecord(p))
                  /\ pat' = [pat EXCEPT ![p].pc = "balked",
                                        ![p].beds_at_arrival = beds_in_use]
                  /\ queue' = queue \ {e}
                  /\ UNCHANGED <<beds_in_use, occupancy_log, res, eid>>
             ELSE LET r2 == request(res["staff"], p)
                      g == Granted(res["staff"], r2, "staff", e.t, eid)
                  IN /\ beds_in_use' = beds_in_use + 1
                     /\ occupancy_log' = Append(occupancy_log, admission_sample(e.t))
                     /\ res' = [res EXCEPT !["staff"] = r2]
                     /\ queue' = (queue \ {e}) \cup g
                     /\ eid' = eid + Cardinality(g)
                     /\ pat' = [pat EXCEPT ![p].pc = "wait_staff",
                                           ![p].beds_at_arrival = beds_in_use,
                                           ![p].bed_assign_time = e.t]
                     /\ UNCHANGED patient_log
    /\ UNCHANGED <<hospital, program, params, phase, patient_id, rng, run_no, prev>>

\* Hospital.patient from the grant of req to `yield env.timeout(...)`
DashStartTreatment ==
    /\ program = "dash"
    /\ Fires("req")
    /\ LET e == NextEvent
           p == e.pid
       IN /\ now' = e.t
          /\ \E g \in get_treatment_time :
                /\ rng' = g.rng
                /\ pat' = [pat EXCEPT ![p].pc = "treat",
                                      ![p].staff_assign_time = e.t,
                                      ![p].treatment_time = g.treatment_time,
                                      ![p].scale = g.scale,
                                      ![p].n = Len(res["staff"].users),
                                      ![p].beds_at_start = beds_in_use,
                                      ![p].staff_type = g.staff_type]
                /\ queue' = (queue \ {e}) \cup
                      {Ev(e.t + g.treatment_time, NORMAL, eid, "timeout", p, "")}
          /\ eid' = eid + 1
    /\ UNCHANGED <<hospital, program, params, phase, patient_id, res, beds_in_use,
                   patient_log, occupancy_log, run_no, prev>>

\* Hospital.patient after the treatment: free the bed, log, and leave the
\* `with` block, which releases the staff request
DashDischarge ==
    /\ program = "dash"
    /\ Fires("timeout")
    /\ LET e == NextEvent
           p == e.pid
       IN /\ now' = e.t
          /\ beds_in_use' = beds_in_use - 1
          /\ occupancy_log' = Append(occupancy_log, discharge_sample(e.t))
          /\ patient_log' = append(patient_log, DashDischargedRecord(p, e.t))
          /\ res' = [res EXCEPT !["staff"] = release(res["staff"], p)]
          /\ queue' = (queue \ {e}) \cup {Ev(e.t, NORMAL, eid, "rel", 0, "staff")}
          /\ eid' = eid + 1
          /\ pat' = [pat EXCEPT ![p].pc = "done"]
    /\ UNCHANGED <<hospital, program, params, phase, patient_id, rng, run_no, prev>>

\* faulty variant: a Release event whose callback grants nothing
Released_without_trigger ==
    /\ Fires("rel")
    /\ now' = NextEvent.t
    /\ queue' = queue \ {NextEvent}
    /\ UNCHANGED <<hospital, program, params, phase, eid, patient_id, pat, res, beds_in_use,
                   patient_log, occupancy_log, rng, run_no, prev>>

\* a Release event is processed: its callback _trigger_put grants the head
\* of the pool's put queue
Released ==
    /\ Fires("rel")
    /\ LET e == NextEvent
           r2 == _trigger_put(res[e.pool])
           g == Granted(res[e.pool], r2, e.pool, e.t, eid)
       IN /\ now' = e.t
          /\ res' = [res EXCEPT ![e.pool] = r2]
          /\ queue' = (queue \ {e}) \cup g
          /\ eid' = eid + Cardinality(g)
    /\ UNCHANGED <<hospital, program, params, phase, patient_id, pat, beds_in_use,
                   patient_log, occupancy_log, rng, run_no, prev>>

----------------------------------------------------------------------------
(* The typed-staff script: patient(env, name, hospital) *)

TypedBalkedRecord(p) ==
    [name |-> p, arrival_time |-> pat[p].arrival_time, status |-> "Balked"]

TypedDischargedRecord(p, t) ==
    [name |-> p, arrival_time |-> pat[p].arrival_time,
     waited_for_bed |-> pat[p].bed_assign_time - pat[p].arrival_time,
     waited_for_staff |-> pat[p].staff_assign_time - pat[p].bed_assign_time,
     treatment_duration |-> t - pat[p].staff_assign_time,
     staff_type |-> pat[p].staff_type, status |-> "Discharged"]

\* faulty variant: an off-by-one bed-full test
TypedBedsFull_off_by_one == count(res["beds"]) > res["beds"].capacity

\* the bed-full test of patient()
TypedBedsFull == count(res["beds"]) >= res["beds"].capacity

\* patient() up to `yield bed_req`: balk, or request a bed
TypedArrive ==
    /\ program = "typed"
    /\ Fires("init")
    /\ LET e == NextEvent
           p == e.pid
       IN /\ now' = e.t
          /\ IF TypedBedsFull
             THEN /\ patient_log' = append(patient_log, TypedBalkedRecord(p))
                  /\ pat' = [pat EXCEPT ![p].pc = "balked",
                                ![p].beds_at_arrival = count(res["beds"])]
                  /\ queue' = queue \ {e}
                  /\ UNCHANGED <<res, eid>>
             ELSE LET r2 == request(res["beds"], p)
                      g == Granted(res["beds"], r2, "beds", e.t, eid)
                  IN /\ res' = [res EXCEPT !["beds"] = r2]
                     /\ queue' = (queue \ {e}) \cup g
                     /\ eid' = eid + Cardinality(g)
                     /\ pat' = [pat EXCEPT ![p].pc = "wait_bed",
                                   ![p].beds_at_arrival = count(res["beds"])]
                     /\ UNCHANGED patient_log
    /\ UNCHANGED <<hospital, program, params, phase, patient_id, beds_in_use,
                   occupancy_log, rng, run_no, prev>>

\* patient() from the grant of the bed to `yield senior_req | junior_req`:
\* one request on each staff pool, then the AnyOf condition over both
TypedRequestStaff ==
    /\ program = "typed"
    /\ Fires("req")
    /\ NextEvent.pool = "beds"
    /\ LET e == NextEvent
           p == e.pid
           s2 == request(res["staff_senior"], p)
           gs == Granted(res["staff_senior"], s2, "staff_senior", e.t, eid)
           j2 == request(res["staff_junior"], p)
           gj == Granted(res["staff_junior"], j2, "staff_junior", e.t,
                         eid + Cardinality(gs))
       IN /\ now' = e.t
          /\ res' = [res EXCEPT !["staff_senior"] = s2, !["staff_junior"] = j2]
          /\ queue' = (queue \ {e}) \cup gs \cup gj
          /\ eid' = eid + Cardinality(gs) + Cardinality(gj)
          /\ pat' = [pat EXCEPT ![p].pc = "wait_staff",
                                ![p].bed_assign_time = e.t]
    /\ UNCHANGED <<hospital, program, params, phase, patient_id, beds_in_use,
                   patient_log, occupancy_log, rng, run_no, prev>>

\* a granted staff request is processed: it counts as processed from now
\* on, and Condition._check triggers the patient's AnyOf condition unless
\* that was triggered before
TypedStaffGranted ==
    /\ program = "typed"
    /\ Fires("req")
    /\ NextEvent.pool # "beds"
    /\ LET e == NextEvent
           p == e.pid
           fire == pat[p].pc = "wait_staff" /\ ~pat[p].cond
           done == IF e.pool = "staff_senior"
                   THEN [pat EXCEPT ![p].senior_done = TRUE]
                   ELSE [pat EXCEPT ![p].junior_done = TRUE]
       IN /\ now' = e.t
          /\ pat' = IF fire THEN [done EXCEPT ![p].cond = TRUE] ELSE done
          /\ queue' = (queue \ {e}) \cup
                (IF fire THEN {Ev(e.t, NORMAL, eid, "cond", p, "")} ELSE {})
          /\ eid' = IF fire THEN eid + 1 ELSE eid
    /\ UNCHANGED <<hospital, program, params, phase, patient_id, res, beds_in_use,
                   patient_log, occupancy_log, rng, run_no, prev>>

\* faulty variant: the occupancy read leaves out the patient's own bed
occupancy_read_others ==
    IF count(res["beds"]) - 1 = 0 THEN 1 ELSE count(res["beds"]) - 1

\* `n = hospital['beds'].count` with the clamp `if n == 0: n = 1`
occupancy_read == IF count(res["beds"]) = 0 THEN 1 ELSE count(res["beds"])

\* faulty variant: the rate is scaled by ALPHA * s / n without the clamp at 1
treatment_scale_unclamped(staff_type, n) ==
    LET mu_ideal == IF staff_type = "Senior"
                    THEN RDiv(RInt(1), RInt(AVG_TREATMENT_TIME_SENIOR_MINUTES))
                    ELSE RDiv(RInt(1), RInt(AVG_TREATMENT_TIME_JUNIOR_MINUTES))
        s == params.NUM_SENIOR_STAFF + params.NUM_JUNIOR_STAFF
        mu_actual == RMul(mu_ideal, RDiv(RMul(params.ALPHA, RInt(s)), RInt(n)))
    IN RDiv(RInt(1), mu_actual)

\* 1.0 / mu_actual, mu_actual = mu_ideal * min(1, ALPHA * s / n)
treatment_scale(staff_type, n) ==
    LET mu_ideal == IF staff_type = "Senior"
                    THEN RDiv(RInt(1), RInt(AVG_TREATMENT_TIME_SENIOR_MINUTES))
                    ELSE RDiv(RInt(1), RInt(AVG_TREATMENT_TIME_JUNIOR_MINUTES))
        s == params.NUM_SENIOR_STAFF + params.NUM_JUNIOR_STAFF
        mu_actual == RMul(mu_ideal,
                          RMin(RInt(1), RDiv(RMul(params.ALPHA, RInt(s)), RInt(n))))
    IN RDiv(RInt(1), mu_actual)

\* `senior_req in result`: the condition's value holds the processed requests
assigned_type(p) == IF pat[p].senior_done THEN "Senior" ELSE "Junior"

\* patient() from the condition to `yield env.timeout(treatment_duration)`
TypedStartTreatment ==
    /\ program = "typed"
    /\ Fires("cond")
    /\ LET e == NextEvent
           p == e.pid
           staff_type == assigned_type(p)
           n == occupancy_read
           scale == treatment_scale(staff_type, n)
       IN /\ now' = e.t
          /\ \E d \in DrawFrom(rng, scale, Draws) :
                /\ rng' = d.rng
                /\ pat' = [pat EXCEPT ![p].pc = "treat",
                                      ![p].staff_assign_time = e.t,
                                      ![p].staff_type = staff_type,
                                      ![p].n = n,
                                      ![p].beds_at_start = count(res["beds"]),
                                      ![p].scale = scale,
                                      ![p].treatment_time = d.value]
                /\ queue' = (queue \ {e}) \cup
                      {Ev(e.t + d.value, NORMAL, eid, "timeout", p, "")}
          /\ eid' = eid + 1
    /\ UNCHANGED <<hospital, program, params, phase, patient_id, res, beds_in_use,
                   patient_log, occupancy_log, run_no, prev>>

\* the pool of staff_resource
staff_resource(p) ==
    IF pat[p].staff_type = "Senior" THEN "staff_senior" ELSE "staff_junior"

\* patient() after the treatment: release the staff request of the
\* assigned type, log, and leave the `with` block, which releases the bed
TypedDischarge ==
    /\ program = "typed"
    /\ Fires("timeout")
    /\ LET e == NextEvent
           p == e.pid
           pool == staff_resource(p)
       IN /\ now' = e.t
          /\ res' = [res EXCEPT ![pool] = release(res[pool], p),
                                !["beds"] = release(res["beds"], p)]
          /\ patient_log' = append(patient_log, TypedDischargedRecord(p, e.t))
          /\ queue' = (queue \ {e}) \cup
                {Ev(e.t, NORMAL, eid, "rel", 0, pool),
                 Ev(e.t, NORMAL, eid + 1, "rel", 0, "beds")}
          /\ eid' = eid + 2
          /\ pat' = [pat EXCEPT ![p].pc = "done"]
    /\ UNCHANGED <<hospital, program, params, phase, patient_id, beds_in_use,
                   occupancy_log, rng, run_no, prev>>

----------------------------------------------------------------------------
(* The results of a run: the KPIs of run_hospital_simulation and the       *)
(* blocking probability of the typed-staff script.  Times are in minutes;  *)
(* a ratio is kept as a rational.                                          *)

RECURSIVE sum(_)
sum(s) == IF s = <<>> THEN 0 ELSE Head(s) + sum(Tail(s))

\* Series.mean()
mean(s) == <<sum(s), Len(s)>>

\* pd.DataFrame(log).columns: the keys of the records, none for an empty log
columns(df) == IF df = <<>> THEN {} ELSE DOMAIN df[1]

\* df[col]
column(df, col) == [i \in 1..Len(df) |-> df[i][col]]

\* Series.str.contains('Balked') on the two values Status takes
contains_Balked(status) == status = "Balked (No Beds)"

\* WaitTime is np.nan in exactly the records that the balk branch builds
isna_WaitTime(rec) == contains_Balked(rec.Status)

\* DataFrame.dropna(subset=['WaitTime']) raises KeyError when the frame has
\* no such column, which is the case of the frame of an empty log
dropna_raises == "WaitTime" \notin columns(patient_log)

total_arrivals == Len(patient_log)

blocking_probability_pct ==
    IF total_arrivals > 0
    THEN RMul(<<Len(SelectSeq(patient_log, LAMBDA rec : contains_Balked(rec.Status))),
                total_arrivals>>, RInt(100))
    ELSE RInt(0)

treated_df == SelectSeq(patient_log, LAMBDA rec : ~isna_WaitTime(rec))

\* the loop over occupancy_df.iterrows(): each sample's count times the
\* time since the sample before it (since 0 for the first)
RECURSIVE total_patient_minutes(_)
total_patient_minutes(i) ==
    IF i = 0 THEN 0
    ELSE total_patient_minutes(i - 1)
           + occupancy_log[i][2]
               * (occupancy_log[i][1] - (IF i = 1 THEN 0 ELSE occupancy_log[i - 1][1]))

\* params['simulation_duration'] * MINS_IN_DAY
total_minutes == params.horizon

average_bed_occupancy_pct ==
    IF occupancy_log # <<>>
    THEN LET avg_patients ==
                 IF total_minutes > 0
                 THEN <<total_patient_minutes(Len(occupancy_log)), total_minutes>>
                 ELSE RInt(0)
         IN IF params.num_beds > 0
            THEN RMul(RDiv(avg_patients, RInt(params.num_beds)), RInt(100))
            ELSE RInt(0)
    ELSE RInt(0)

\* the kpis dictionary that run_hospital_simulation returns, unless the
\* result processing raises
kpis ==
    [blocking_probability_pct |-> blocking_probability_pct,
     average_wait_days |->
        IF treated_df # <<>>
        THEN RDiv(mean(column(treated_df, "WaitTime")), RInt(MINS_IN_DAY))
        ELSE RInt(0),
     average_length_of_stay_days |->
        IF treated_df # <<>>
        THEN RDiv(mean(column(treated_df, "TotalTime")), RInt(MINS_IN_DAY))
        ELSE RInt(0),
     total_patients_served |-> Len(treated_df),
     average_bed_occupancy_pct |-> average_bed_occupancy_pct]

\* the typed-staff script: log_df['status'] raises KeyError on the frame of
\* an empty log; blocking_prob = len(balked_patients) / total_patients
typed_analysis_raises == "status" \notin columns(patient_log)

balked_patients == SelectSeq(patient_log, LAMBDA rec : rec.status = "Balked")

total_patients == Len(patient_log)

blocking_prob == <<Len(balked_patients), total_patients>>

----------------------------------------------------------------------------
(* The specifications *)

\* the same configuration and seed are run again in the same process
Rerun ==
    /\ phase = "done"
    /\ rng.record
    /\ run_no = 1
    /\ run_no' = run_no + 1
    /\ prev' = <<patient_log, occupancy_log>>
    /\ phase' = "setup"
    /\ UNCHANGED <<hospital, program, params, now, queue, eid, patient_id, pat, res,
                   beds_in_use, patient_log, occupancy_log, rng>>

Next ==
    \/ Setup
    \/ Source
    \/ DashArrive
    \/ DashStartTreatment
    \/ DashDischarge
    \/ TypedArrive
    \/ TypedRequestStaff
    \/ TypedStaffGranted
    \/ TypedStartTreatment
    \/ TypedDischarge
    \/ Released
    \/ Finish

Spec == Init /\ [][Next]_vars

\* run_hospital_simulation alone
InitDash == Init /\ program = "dash"

NextDash ==
    \/ Setup
    \/ Source
    \/ DashArrive
    \/ DashStartTreatment
    \/ DashDischarge
    \/ Released
    \/ Finish

SpecDash == InitDash /\ [][NextDash]_vars

\* the typed-staff script alone
InitTyped == Init /\ program = "typed"

NextTyped ==
    \/ Setup
    \/ Source
    \/ TypedArrive
    \/ TypedRequestStaff
    \/ TypedStaffGranted
    \/ TypedStartTreatment
    \/ TypedDischarge
    \/ Released
    \/ Finish

SpecTyped == InitTyped /\ [][NextTyped]_vars

InitReplay == InitWith(TRUE, ReplayHorizon)

NextReplay == Next \/ Rerun

SpecReplay == InitReplay /\ [][NextReplay]_vars

----------------------------------------------------------------------------
(* Observations shared by the properties *)

Started == phase \in {"running", "done"}

Patients == 1..Len(pat)

SeqToSet(q) == {q[i] : i \in 1..Len(q)}

BedCapacity == IF program = "dash" THEN params.num_beds ELSE params.NUM_BEDS

\* the number of occupied beds
Occupancy == IF program = "dash" THEN beds_in_use ELSE count(res["beds"])

IsBalked(rec) ==
    IF program = "dash" THEN rec.Status = "Balked (No Beds)" ELSE rec.status = "Balked"

IsDischarged(rec) ==
    IF program = "dash" THEN rec.Status = "Discharged" ELSE rec.status = "Discharged"

RecordId(rec) == IF program = "dash" THEN rec.PatientID ELSE rec.name

BalkedRecords == {i \in 1..Len(patient_log) : IsBalked(patient_log[i])}

DischargedRecords == {i \in 1..Len(patient_log) : IsDischarged(patient_log[i])}

----------------------------------------------------------------------------
(* C1: at every instant the number of occupied beds (beds_in_use of        *)
(* run_hospital_simulation, beds.count of the typed-staff script) is       *)
(* between 0 and the bed capacity, and so is every count written to the    *)
(* occupancy series.                                                       *)

C1_OccupancyWithinCapacity ==
    Started =>
        /\ 0 <= Occupancy
        /\ Occupancy <= BedCapacity
        /\ \A i \in 1..Len(occupancy_log) :
              /\ 0 <= occupancy_log[i][2]
              /\ occupancy_log[i][2] <= BedCapacity

\* the largest ward filled up, turned a patient away and discharged one
C1_Witness ==
    /\ program = "dash"
    /\ params.num_beds = MaxBeds
    /\ BalkedRecords # {}
    /\ DischargedRecords # {}
    /\ \E i \in 1..Len(occupancy_log) : occupancy_log[i][2] = params.num_beds
    /\ beds_in_use < params.num_beds

----------------------------------------------------------------------------
(* C2: in the typed-staff script no patient is double-booked and no staff  *)
(* unit is held for nobody: whenever every event of the current instant    *)
(* has been processed, each staff unit in use is held by a patient in      *)
(* treatment, a patient in treatment holds exactly one unit, and the staff *)
(* in use equal the patients in treatment.                                 *)

StaffPools == {"staff_senior", "staff_junior"}

\* every event due at the current instant has been processed
Settled ==
    \/ phase = "done"
    \/ phase = "running" /\ (queue = {} \/ NextEvent.t > now)

Holds(p, pool) == p \in SeqToSet(res[pool].users)

Queued(p, pool) == p \in SeqToSet(res[pool].put_queue)

InTreatment == {p \in Patients : pat[p].pc = "treat"}

StaffInUse == count(res["staff_senior"]) + count(res["staff_junior"])

C2_NoDoubleBooking ==
    (program = "typed" /\ Settled) =>
        /\ \A pool \in StaffPools : \A p \in Patients :
              Holds(p, pool) => p \in InTreatment
        /\ \A p \in InTreatment :
              Cardinality({pool \in StaffPools : Holds(p, pool)}) = 1
        /\ StaffInUse = Cardinality(InTreatment)

----------------------------------------------------------------------------
(* C3: when a patient's race over the Senior and Junior pools has          *)
(* resolved, its request on the other pool is withdrawn: a patient in      *)
(* treatment or discharged has no request in either pool's wait queue.     *)

PastRace == {p \in Patients : pat[p].pc \in {"treat", "done"}}

C3_LoserWithdrawn ==
    program = "typed" =>
        \A p \in PastRace : \A pool \in StaffPools : ~Queued(p, pool)

----------------------------------------------------------------------------
(* C4: for every run the patient log holds exactly one record per patient  *)
(* that arrived, each with one terminal status: at the end of the run the  *)
(* arrivals spawned by the source equal the Discharged plus the Balked     *)
(* records.                                                                *)

InSystem == {p \in Patients : pat[p].pc \notin {"balked", "done"}}

----------------------------------------------------------------------------
(* C5: two runs with the same configuration and the same seed produce the  *)
(* same patient log and the same occupancy series, record for record, also *)
(* when the second run follows the first in the same process.              *)

C5_ReplayIdentical ==
    (run_no = 2 /\ phase = "done") => <<patient_log, occupancy_log>> = prev

\* a second run ended with Discharged and Balked records
C5_Witness ==
    /\ run_no = 2
    /\ phase = "done"
    /\ DischargedRecords # {}
    /\ BalkedRecords # {}

----------------------------------------------------------------------------
(* C6: a patient is recorded as Balked if and only if the occupied beds    *)
(* are at least the bed capacity at the instant of its arrival; a balking  *)
(* patient is logged in the step of its arrival, never waits for or holds  *)
(* a bed or a staff unit, and is never resumed.                            *)

HasBalkedRecord(p) == \E i \in BalkedRecords : RecordId(patient_log[i]) = p

Arrived == {p \in Patients : pat[p].pc # "init"}

C6_BalkedIffFull ==
    Started =>
        \A p \in Arrived :
            /\ HasBalkedRecord(p) <=> pat[p].beds_at_arrival >= BedCapacity
            /\ HasBalkedRecord(p) <=> pat[p].pc = "balked"
            /\ pat[p].pc = "balked" =>
                  /\ pat[p].bed_assign_time = -1
                  /\ \A pool \in DOMAIN res : ~Holds(p, pool) /\ ~Queued(p, pool)
                  /\ \A e \in queue : e.pid # p

\* one patient was turned away at a full ward and a later one was admitted
C6_Witness ==
    \E p, q \in Arrived :
        /\ p < q
        /\ pat[p].pc = "balked"
        /\ pat[p].beds_at_arrival = BedCapacity
        /\ BedCapacity >= 1
        /\ pat[q].pc \notin {"balked", "init"}

----------------------------------------------------------------------------
(* C7: the bed-full check and the bed acquisition of an arriving patient   *)
(* are one step: an admitted patient holds its bed when its arrival step   *)
(* ends, the bed wait queue is always empty and the recorded wait for a    *)
(* bed of every admitted patient is 0.                                     *)

Admitted == {p \in Arrived : pat[p].pc \in {"wait_bed", "wait_staff", "treat"}}

C7_BedAcquiredAtArrival ==
    Started =>
        /\ program = "typed" =>
              /\ res["beds"].put_queue = <<>>
              /\ \A p \in Admitted : Holds(p, "beds")
              /\ \A i \in DischargedRecords : patient_log[i].waited_for_bed = 0
        /\ program = "dash" => beds_in_use = Cardinality(Admitted)
        /\ \A p \in Arrived :
              pat[p].pc \in {"wait_staff", "treat", "done"} =>
                  pat[p].bed_assign_time = pat[p].arrival_time

DischargeTime(rec) ==
    rec.arrival_time + rec.waited_for_bed + rec.waited_for_staff
        + rec.treatment_duration

\* in a one-bed ward a patient was admitted at the very instant of a discharge
C7_Witness ==
    /\ program = "typed"
    /\ params.NUM_BEDS = 1
    /\ \E i \in DischargedRecords : \E p \in Admitted :
          pat[p].arrival_time = DischargeTime(patient_log[i])

(* C7, over whole runs: in every state of every run the bed-full check and *)
(* the bed acquisition of an arriving patient have been one step: each     *)
(* admitted patient holds its bed, the bed wait queue is empty and every   *)
(* recorded wait for a bed is 0.                                           *)
C7_AlwaysBedAcquiredAtArrival == []C7_BedAcquiredAtArrival

----------------------------------------------------------------------------
(* C8: the typed-staff script run with one staff type at capacity 0 and    *)
(* the other at capacity >= 1 runs and discharges patients, and every      *)
(* Discharged record names the staff type of non-zero capacity.            *)

OneStaffTypeAtZero ==
    /\ program = "typed"
    /\ params.NUM_BEDS >= 1
    /\ \/ params.NUM_SENIOR_STAFF = 0 /\ params.NUM_JUNIOR_STAFF >= 1
       \/ params.NUM_JUNIOR_STAFF = 0 /\ params.NUM_SENIOR_STAFF >= 1

NonZeroType == IF params.NUM_SENIOR_STAFF = 0 THEN "Junior" ELSE "Senior"

C8_ZeroCapacityTypeStillServes ==
    (OneStaffTypeAtZero /\ phase # "setup") =>
        /\ Started
        /\ \A i \in DischargedRecords : patient_log[i].staff_type = NonZeroType

----------------------------------------------------------------------------
(* C9: with a bed capacity of 0 every arrival of the run is recorded as    *)
(* Balked, the log holds no Discharged record and the occupancy series     *)
(* stays empty.                                                            *)

C9_NoBedsAllBalked ==
    (Started /\ BedCapacity = 0) =>
        /\ \A p \in Arrived : HasBalkedRecord(p)
        /\ \A i \in 1..Len(patient_log) : IsBalked(patient_log[i])
        /\ DischargedRecords = {}
        /\ occupancy_log = <<>>
        /\ phase = "done" => Len(patient_log) = patient_id

\* a run without beds ended after several arrivals
C9_Witness ==
    /\ phase = "done"
    /\ BedCapacity = 0
    /\ patient_id >= 2
    /\ Len(patient_log) >= 2

----------------------------------------------------------------------------
(* C10: in the workload-dependent model the treatment duration is drawn    *)
(* with mean 1/mu_actual, mu_actual = mu_ideal * min(1, alpha*s/n), where  *)
(* n is the number of occupied beds when the treatment begins, s the total *)
(* staff and mu_ideal the ideal rate of the granted staff type: the mean   *)
(* is the ideal mean times max(1, n/(alpha*s)).                            *)

WorkloadModel ==
    \/ program = "typed"
    \/ program = "dash" /\ params.scenario = Workload

TotalStaff ==
    IF program = "dash" THEN params.num_staff
    ELSE params.NUM_SENIOR_STAFF + params.NUM_JUNIOR_STAFF

Alpha == IF program = "dash" THEN params.workload_factor_alpha ELSE params.ALPHA

IdealMean(p) ==
    IF program = "dash" THEN RInt(params.senior_service_days * MINS_IN_DAY)
    ELSE IF pat[p].staff_type = "Senior"
    THEN RInt(AVG_TREATMENT_TIME_SENIOR_MINUTES)
    ELSE RInt(AVG_TREATMENT_TIME_JUNIOR_MINUTES)

Treated == {p \in Patients : pat[p].pc \in {"treat", "done"}}

\* the mean the claim gives for patient p, from the beds occupied when its
\* treatment began
ClaimedMean(p) ==
    RMul(IdealMean(p),
         RMax(RInt(1),
              RDiv(RInt(pat[p].beds_at_start), RMul(Alpha, RInt(TotalStaff)))))

C10_WorkloadMean ==
    (Started /\ WorkloadModel) =>
        \A p \in Treated : REq(pat[p].scale, ClaimedMean(p))

\* the same statement for the typed-staff script alone
C10_TypedWorkloadMean ==
    (Started /\ program = "typed") =>
        \A p \in Treated : REq(pat[p].scale, ClaimedMean(p))

\* a typed-staff treatment that began degraded, at an occupancy other than
\* the one the patient found at its arrival
C10_TypedDegraded ==
    /\ program = "typed"
    /\ \E p \in Treated :
          /\ RLess(IdealMean(p), pat[p].scale)
          /\ pat[p].beds_at_start # pat[p].beds_at_arrival + 1

----------------------------------------------------------------------------
(* C11: the workload clamp.  A treatment that starts while alpha times the *)
(* total staff is at least the number of occupied beds is not degraded:    *)
(* its duration is drawn with the ideal mean (multiplier exactly 1).  So   *)
(* in a run where that holds at every treatment start, every treated       *)
(* patient has the ideal mean.                                             *)

StaffSuffices(p) ==
    ~RLess(RMul(Alpha, RInt(TotalStaff)), RInt(pat[p].beds_at_start))

----------------------------------------------------------------------------
(* C12: the 'Average Bed Occupancy (%)' KPI of run_hospital_simulation is  *)
(* the time average of the occupancy over [0, horizon], divided by the bed *)
(* capacity, in percent.  The time average is the integral of the          *)
(* right-continuous step function of the occupancy series divided by the   *)
(* horizon: each sample's count times the time from that sample to the     *)
(* next one (to the horizon for the last sample), and 0 before the first.  *)

\* the run ended and its result processing returned the KPIs
ResultsReturned == program = "dash" /\ phase = "done" /\ ~dropna_raises

RECURSIVE StepIntegral(_)
StepIntegral(i) ==
    IF i = 0 THEN 0
    ELSE StepIntegral(i - 1)
           + occupancy_log[i][2]
               * ((IF i = Len(occupancy_log) THEN params.horizon
                   ELSE occupancy_log[i + 1][1]) - occupancy_log[i][1])

ClaimedOccupancyPct ==
    <<100 * StepIntegral(Len(occupancy_log)), params.horizon * params.num_beds>>

C12_AverageOccupancy ==
    (ResultsReturned /\ params.num_beds > 0) =>
        REq(kpis.average_bed_occupancy_pct, ClaimedOccupancyPct)

----------------------------------------------------------------------------
(* C13: the blocking probability reported at the end of a run is the       *)
(* number of arrivals that balked divided by the number of patients that   *)
(* arrived during the run (in percent in run_hospital_simulation, as a     *)
(* fraction in the typed-staff script).                                    *)

BalkedArrivals == {p \in Patients : pat[p].pc = "balked"}

\* balked arrivals / arrivals of the run
ClaimedBlocking == <<Cardinality(BalkedArrivals), patient_id>>

\* the run ended and the program computed its blocking probability
BlockingReported ==
    /\ phase = "done"
    /\ IF program = "dash" THEN ~dropna_raises ELSE ~typed_analysis_raises

C13_BlockingProbability ==
    BlockingReported =>
        IF program = "dash"
        THEN REq(kpis.blocking_probability_pct, RMul(ClaimedBlocking, RInt(100)))
        ELSE REq(blocking_prob, ClaimedBlocking)

----------------------------------------------------------------------------
(* C14: a run of run_hospital_simulation whose configuration has an        *)
(* unrecognized scenario, a non-positive arrival rate, horizon or ideal    *)
(* service time, or a negative capacity is rejected with a configuration   *)
(* error before any simulation state exists: no patient is spawned, no     *)
(* treatment time is drawn, and no log, series or KPI is produced.         *)

InvalidConfiguration ==
    /\ program = "dash"
    /\ \/ params.scenario \notin {Baseline, Experience, Workload}
       \/ params.arrival_rate <= 0
       \/ params.horizon <= 0
       \/ params.senior_service_days <= 0
       \/ params.junior_service_days <= 0
       \/ params.num_beds < 0
       \/ params.num_staff < 0

C14_InvalidConfigurationRejected ==
    (InvalidConfiguration /\ phase # "setup") =>
        /\ phase = "error"
        /\ patient_id = 0
        /\ pat = <<>>
        /\ patient_log = <<>>
        /\ occupancy_log = <<>>

----------------------------------------------------------------------------
(* C15: a run of run_hospital_simulation in which no patient arrives       *)
(* before the horizon, so that the patient log and the occupancy series    *)
(* are empty, completes without error and reports every KPI as 0.          *)

NoArrivalRun ==
    program = "dash" /\ ~InvalidConfiguration /\ phase = "done" /\ patient_id = 0

C15_EmptyRunAllZero ==
    NoArrivalRun =>
        /\ patient_log = <<>> /\ occupancy_log = <<>>
        /\ ~dropna_raises
        /\ REq(kpis.blocking_probability_pct, RInt(0))
        /\ REq(kpis.average_wait_days, RInt(0))
        /\ REq(kpis.average_length_of_stay_days, RInt(0))
        /\ kpis.total_patients_served = 0
        /\ REq(kpis.average_bed_occupancy_pct, RInt(0))

----------------------------------------------------------------------------
(* C16: run_hospital_simulation appends an occupancy sample exactly when   *)
(* the occupancy changes: one per admission, one per discharge, none for a *)
(* balk.  The first sample has count 1, consecutive samples differ by      *)
(* exactly +1 or -1, and the last sample is the current occupancy.         *)

\* the patients admitted so far, discharged or not
EverAdmitted == {p \in Patients : pat[p].pc \in {"wait_staff", "treat", "done"}}

LastCount ==
    IF occupancy_log = <<>> THEN 0 ELSE occupancy_log[Len(occupancy_log)][2]

C16_SamplePerChange ==
    (program = "dash" /\ Started) =>
        /\ Len(occupancy_log)
              = Cardinality(EverAdmitted) + Cardinality(DischargedRecords)
        /\ occupancy_log # <<>> => occupancy_log[1][2] = 1
        /\ \A i \in 2..Len(occupancy_log) :
              occupancy_log[i][2] - occupancy_log[i - 1][2] \in {1, -1}
        /\ LastCount = beds_in_use

\* admissions, a discharge and a balk happened, and the series both rose by
\* two in a row and fell
C16_Witness ==
    /\ program = "dash"
    /\ BalkedRecords # {}
    /\ DischargedRecords # {}
    /\ \E i \in 2..Len(occupancy_log) :
          occupancy_log[i][2] = 2 /\ occupancy_log[i - 1][2] = 1
    /\ \E i \in 2..Len(occupancy_log) :
          occupancy_log[i][2] < occupancy_log[i - 1][2]

----------------------------------------------------------------------------
(* C17: conservation in run_hospital_simulation.  At every point of a run, *)
(* and so at the horizon, the sum of the +1/-1 steps of the occupancy      *)
(* series (its last count) equals the admitted patients minus the          *)
(* Discharged records, which is the number of patients still in the ward,  *)
(* and lies between 0 and the bed capacity.                                *)

RECURSIVE DeltaSum(_)
DeltaSum(i) ==
    IF i = 0 THEN 0
    ELSE DeltaSum(i - 1)
           + (occupancy_log[i][2] - (IF i = 1 THEN 0 ELSE occupancy_log[i - 1][2]))

C17_Conservation ==
    (program = "dash" /\ Started) =>
        LET remaining == DeltaSum(Len(occupancy_log))
        IN /\ remaining = LastCount
           /\ remaining = Cardinality(EverAdmitted) - Cardinality(DischargedRecords)
           /\ remaining = Cardinality(Admitted)
           /\ 0 <= remaining
           /\ remaining <= params.num_beds

\* a run ended with two patients still in the ward after a discharge and a balk
C17_Witness ==
    /\ program = "dash"
    /\ phase = "done"
    /\ DischargedRecords # {}
    /\ BalkedRecords # {}
    /\ LastCount = 2

----------------------------------------------------------------------------
(* C18: a discharge is one uninterrupted step.  In the step in which a     *)
(* patient's treatment ends, its staff unit is released, its bed is freed, *)
(* run_hospital_simulation appends the occupancy sample with the           *)
(* decremented count, and exactly one Discharged record of the patient is  *)
(* appended, all at the same virtual time; after the step the patient      *)
(* holds no bed and no staff unit and waits for none.                      *)

Discharges(p) == pat[p].pc = "treat" /\ pat'[p].pc = "done"

DischargeIsOneStep(p) ==
    /\ Len(patient_log') = Len(patient_log) + 1
    /\ \A i \in 1..Len(patient_log) : patient_log'[i] = patient_log[i]
    /\ IsDischarged(patient_log'[Len(patient_log')])
    /\ RecordId(patient_log'[Len(patient_log')]) = p
    /\ program = "dash" =>
          /\ beds_in_use' = beds_in_use - 1
          /\ occupancy_log' = Append(occupancy_log, <<now', beds_in_use - 1>>)
    /\ program = "typed" => count(res'["beds"]) = count(res["beds"]) - 1
    /\ \A pool \in DOMAIN res :
          /\ p \notin SeqToSet(res'[pool].users)
          /\ p \notin SeqToSet(res'[pool].put_queue)

C18_DischargeIsOneStep ==
    [][\A p \in Patients : Discharges(p) => DischargeIsOneStep(p)]_vars

\* the same statement for run_hospital_simulation alone
C18_DashDischargeIsOneStep ==
    [][program = "dash" =>
          \A p \in Patients : Discharges(p) => DischargeIsOneStep(p)]_vars

----------------------------------------------------------------------------
(* C19: the run stops at the horizon.  Virtual time never decreases and    *)
(* never passes the horizon; no arrival, admission, balk or discharge is   *)
(* recorded with a time after the horizon; and an arrival or an end of     *)
(* treatment scheduled at or after the horizon is left in the event queue  *)
(* without executing: it spawns no patient, adds no record and no sample.  *)

\* the time of the event a record was appended at
RecordTime(rec) ==
    IF IsBalked(rec)
    THEN (IF program = "dash" THEN rec.ArrivalTime ELSE rec.arrival_time)
    ELSE IF program = "dash" THEN rec.ArrivalTime + rec.TotalTime
    ELSE DischargeTime(rec)

HasRecord(p) == \E i \in 1..Len(patient_log) : RecordId(patient_log[i]) = p

WithinHorizon ==
    Started =>
        /\ now <= params.horizon
        /\ \A p \in Patients :
              /\ pat[p].arrival_time <= now
              /\ pat[p].bed_assign_time <= now
              /\ pat[p].staff_assign_time <= now
        /\ \A i \in 1..Len(patient_log) : RecordTime(patient_log[i]) <= now
        /\ \A i \in 1..Len(occupancy_log) :
              /\ occupancy_log[i][1] <= now
              /\ i > 1 => occupancy_log[i - 1][1] <= occupancy_log[i][1]
        /\ phase = "done" =>
              \A e \in queue :
                 /\ e.t >= params.horizon
                 /\ e.kind = "timeout" =>
                       pat[e.pid].pc = "treat" /\ ~HasRecord(e.pid)
                 /\ e.kind = "init" => pat[e.pid].pc = "init" /\ ~HasRecord(e.pid)

C19_StopsAtHorizon ==
    /\ []WithinHorizon
    /\ [][/\ now' >= now
          /\ phase = "done" =>
                UNCHANGED <<patient_id, pat, patient_log, occupancy_log>>]_vars

\* a run ended with records, leaving behind a treatment that would have
\* ended after the horizon and an arrival due after it
C19_Witness ==
    /\ phase = "done"
    /\ patient_log # <<>>
    /\ \E e \in queue : e.kind = "timeout" /\ e.t > params.horizon
    /\ \E e \in queue : e.kind = "arrival" /\ e.t > params.horizon

----------------------------------------------------------------------------
(* C20: within each staff pool waiting requests are granted first come,    *)
(* first served.  Patients request staff in the order of their admission,  *)
(* so: a pool's wait queue is in admission order, and no patient has been  *)
(* granted a unit of a pool while the request of an earlier-admitted       *)
(* patient is still waiting in that pool.  In run_hospital_simulation the  *)
(* admitted patients therefore start treatment in admission order.         *)

AllStaffPools == IF program = "dash" THEN {"staff"} ELSE StaffPools

\* p's request on the pool was granted at some time
WasGranted(p, pool) ==
    \/ Holds(p, pool)
    \/ program = "dash" /\ pat[p].pc \in {"treat", "done"}
    \/ pool = "staff_senior" /\ pat[p].senior_done
    \/ pool = "staff_junior" /\ pat[p].junior_done

C20_StaffGrantedInOrder ==
    Started =>
        /\ \A pool \in AllStaffPools :
              /\ \A i, j \in 1..Len(res[pool].put_queue) :
                    i < j => res[pool].put_queue[i] < res[pool].put_queue[j]
              /\ \A a, b \in Patients :
                    (Queued(a, pool) /\ WasGranted(b, pool)) => b < a
        /\ program = "dash" =>
              \A a, b \in Treated :
                    a < b => pat[a].staff_assign_time <= pat[b].staff_assign_time

\* a patient that had waited for staff was granted a unit in the very step
\* in which a later patient joined the same wait queue, where it waits on
C20_Witness ==
    \E e \in queue : \E b \in Patients :
        /\ e.kind = "req"
        /\ e.pool \in AllStaffPools
        /\ e.eid = eid - 1
        /\ e.pid < b
        /\ pat[e.pid].bed_assign_time < e.t
        /\ Queued(b, e.pool)
        /\ pat[b].pc = "wait_staff"
        /\ pat[b].bed_assign_time = now

(* C20, over whole runs: in every state of every run the requests waiting  *)
(* for a staff pool wait in the order of their arrival and no request was  *)
(* granted a unit before a request that had asked for it earlier.          *)
C20_AlwaysStaffGrantedInOrder == []C20_StaffGrantedInOrder

----------------------------------------------------------------------------
(* C21: the staff pools are work-conserving.  Once the events of the       *)
(* current instant have been processed, a pool with a waiting request has  *)
(* every unit in use, so a patient still waiting for staff finds every     *)
(* pool it asked in full use; a unit released at some instant has gone to  *)
(* the head of the wait queue by the end of that instant.                  *)

WaitingForStaff == {p \in Patients : pat[p].pc = "wait_staff"}

C21_WorkConserving ==
    (Started /\ Settled) =>
        /\ \A pool \in AllStaffPools :
              res[pool].put_queue # <<>> => count(res[pool]) = res[pool].capacity
        /\ \A p \in WaitingForStaff : \A pool \in AllStaffPools :
              /\ Queued(p, pool)
              /\ count(res[pool]) = res[pool].capacity

----------------------------------------------------------------------------
(* C22: in every resource pool (the staff pool of run_hospital_simulation; *)
(* the bed, Senior and Junior pools of the typed-staff script) the units   *)
(* in use are between 0 and the capacity at every instant, no request      *)
(* holds two units, and a unit leaves the users only in the discharge step *)
(* of the patient it was granted to, which gives it up once: after that    *)
(* step the patient is not released again.                                 *)

PoolsWithinCapacity ==
    Started =>
        \A pool \in DOMAIN res :
            /\ 0 <= count(res[pool])
            /\ count(res[pool]) <= res[pool].capacity
            /\ \A i, j \in 1..Len(res[pool].users) :
                  res[pool].users[i] = res[pool].users[j] => i = j

\* the step takes p out of the users of the pool
Releases(p, pool) ==
    /\ pool \in DOMAIN res
    /\ pool \in DOMAIN res'
    /\ p \in SeqToSet(res[pool].users)
    /\ p \notin SeqToSet(res'[pool].users)

ReleasedByOwnerOnce ==
    \A p \in Patients : \A pool \in {"staff", "beds", "staff_senior", "staff_junior"} :
        Releases(p, pool) =>
            /\ Discharges(p)
            /\ Len(res'[pool].users) = Len(res[pool].users) - 1

----------------------------------------------------------------------------
(* C23: in the heterogeneous-rate scenario (the typed-staff script; the    *)
(* 'Experience-Based Model' of run_hospital_simulation) the ideal service  *)
(* time used for a patient's treatment is that of the staff type assigned  *)
(* to the patient, in the typed-staff script the type of a pool that       *)
(* granted its request, and the same type is written to the patient's      *)
(* Discharged record.                                                      *)

HeterogeneousModel ==
    \/ program = "typed"
    \/ program = "dash" /\ params.scenario = Experience

\* the ideal mean treatment time of the type assigned to p, in minutes
TypeMean(p) ==
    IF program = "typed" THEN IdealMean(p)
    ELSE IF pat[p].staff_type = "Senior"
    THEN RInt(params.senior_service_days * MINS_IN_DAY)
    ELSE RInt(params.junior_service_days * MINS_IN_DAY)

\* the mean of the draw is the ideal mean of the assigned type, degraded by
\* the workload in the typed-staff script
UsesRateOfAssignedType(p) ==
    /\ pat[p].staff_type \in {"Senior", "Junior"}
    /\ IF program = "typed"
       THEN /\ REq(pat[p].scale,
                   RMul(TypeMean(p),
                        RMax(RInt(1), RDiv(RInt(pat[p].n),
                                           RMul(Alpha, RInt(TotalStaff))))))
            /\ pat[p].pc = "treat" => Holds(p, staff_resource(p))
       ELSE REq(pat[p].scale, TypeMean(p))

RecordedType(rec) == IF program = "dash" THEN rec.TreatedBy ELSE rec.staff_type

C23_AssignedTypeRateAndRecord ==
    (Started /\ HeterogeneousModel) =>
        /\ \A p \in Treated : UsesRateOfAssignedType(p)
        /\ \A i \in DischargedRecords :
              RecordedType(patient_log[i])
                  = pat[RecordId(patient_log[i])].staff_type

\* the same statement for the typed-staff script alone
C23_TypedAssignedTypeRateAndRecord ==
    (Started /\ program = "typed") =>
        /\ \A p \in Treated : UsesRateOfAssignedType(p)
        /\ \A i \in DischargedRecords :
              RecordedType(patient_log[i])
                  = pat[RecordId(patient_log[i])].staff_type

----------------------------------------------------------------------------
(* C24: the patient log is append-only.  A step leaves the log as it is or *)
(* appends one record, the record of a patient that reaches its terminal   *)
(* status (Balked or Discharged) in that step and had no record before; no *)
(* patient identifier occurs in two records; no step changes or removes a  *)
(* record of the log.                                                      *)

NoDuplicateRecords ==
    \A i, j \in 1..Len(patient_log) :
        RecordId(patient_log[i]) = RecordId(patient_log[j]) => i = j

\* the step appends the record of a patient reaching its terminal status
AppendsTerminalRecord ==
    /\ Len(patient_log') = Len(patient_log) + 1
    /\ \A i \in 1..Len(patient_log) : patient_log'[i] = patient_log[i]
    /\ LET rec == patient_log'[Len(patient_log')]
           p == RecordId(rec)
       IN /\ p \in Patients
          /\ ~HasRecord(p)
          /\ pat[p].pc \notin {"balked", "done"}
          /\ \/ IsBalked(rec) /\ pat'[p].pc = "balked"
             \/ IsDischarged(rec) /\ pat'[p].pc = "done"

C24_LogAppendOnly ==
    /\ [](Started => NoDuplicateRecords)
    /\ [][phase = "running" =>
             /\ patient_log' = patient_log \/ AppendsTerminalRecord
             /\ \A p \in Patients :
                   (pat[p].pc \notin {"balked", "done"}
                      /\ pat'[p].pc \in {"balked", "done"}) =>
                         patient_log' # patient_log]_vars

\* the log holds a Balked and a Discharged record and a later record was
\* appended behind them
C24_Witness ==
    /\ Len(patient_log) >= 3
    /\ \E i, j \in 1..(Len(patient_log) - 1) :
          IsBalked(patient_log[i]) /\ IsDischarged(patient_log[j])

----------------------------------------------------------------------------
(* C25: in run_hospital_simulation a patient that is admitted but still    *)
(* waiting for staff or in treatment when the horizon is reached is never  *)
(* resumed and has no record in the patient log, while its admission       *)
(* sample stays in the occupancy series; so at the end of a run the        *)
(* arrivals equal the Balked records plus the Discharged records plus the  *)
(* count of the last occupancy sample.                                     *)

\* p's process is parked for good: its request waits in the staff queue, or
\* the end of its treatment is an event due at or after the horizon
NeverResumed(p) ==
    \/ pat[p].pc = "wait_staff" /\ Queued(p, "staff")
                                /\ \A e \in queue : e.pid # p
    \/ pat[p].pc = "treat"
          /\ \E e \in queue : e.pid = p /\ e.kind = "timeout"
                                /\ e.t >= params.horizon

HasAdmissionSample(p) ==
    \E i \in 1..Len(occupancy_log) :
        /\ occupancy_log[i][1] = pat[p].bed_assign_time
        /\ occupancy_log[i][2] = pat[p].beds_at_arrival + 1

C25_InFlightAtHorizon ==
    (program = "dash" /\ phase = "done") =>
        /\ \A p \in Patients :
              pat[p].pc \notin {"balked", "done"} =>
                  /\ NeverResumed(p)
                  /\ ~HasRecord(p)
                  /\ HasAdmissionSample(p)
        /\ patient_id = Cardinality(BalkedRecords)
                          + Cardinality(DischargedRecords) + LastCount

\* a run ended with one patient in treatment and one waiting for staff,
\* after a discharge and a balk
C25_Witness ==
    /\ program = "dash"
    /\ phase = "done"
    /\ BalkedRecords # {}
    /\ DischargedRecords # {}
    /\ \E p, q \in Patients : pat[p].pc = "treat" /\ pat[q].pc = "wait_staff"

----------------------------------------------------------------------------
(* C27: in run_hospital_simulation, between any two process turns, every   *)
(* admitted patient is either a user of the staff pool or in its wait      *)
(* queue: beds_in_use = users + queued; in particular when beds_in_use is  *)
(* back at 0 no staff unit is in use and nobody is queued.                 *)

C27_BedsAreUsersPlusQueued ==
    (program = "dash" /\ Started) =>
        /\ beds_in_use
              = Len(res["staff"].users) + Len(res["staff"].put_queue)
        /\ \A p \in Admitted : Holds(p, "staff") # Queued(p, "staff")
        /\ beds_in_use = 0 =>
              res["staff"].users = <<>> /\ res["staff"].put_queue = <<>>

\* a ward with one member of staff is empty again after it held two
\* patients at a time, one treated and one queued
C27_Witness ==
    /\ program = "dash"
    /\ params.num_staff = 1
    /\ beds_in_use = 0
    /\ Cardinality(DischargedRecords) >= 2
    /\ \E i \in 1..Len(occupancy_log) : occupancy_log[i][2] = 2

----------------------------------------------------------------------------
(* C28: in the 'Workload-Dependent Model' of run_hospital_simulation the   *)
(* service-time multiplier is 1 + max(0, u/num_staff - alpha), u being the *)
(* staff units in use when the treatment starts, the starting patient      *)
(* included.  It does not depend on the occupied beds, is never below 1    *)
(* nor above 2, and is exactly 1 for every patient when alpha >= 1,        *)
(* however many admitted patients are waiting.                             *)

ClaimedMultiplier(p) ==
    RAdd(RInt(1),
         RMax(RInt(0), RSub(<<pat[p].n, params.num_staff>>,
                            params.workload_factor_alpha)))

----------------------------------------------------------------------------
(* C29: in the typed-staff script the occupancy n read for the workload    *)
(* formula is at least 1 where it is read, because the patient computing   *)
(* its rate holds its own bed: the clamp `if n == 0: n = 1` is never       *)
(* taken, n is the number of occupied beds, and no division by zero can    *)
(* occur.                                                                  *)

C29_OccupancyReadPositive ==
    (program = "typed" /\ Started) =>
        /\ \A p \in Patients :
              pat[p].pc \in {"wait_staff", "treat"} =>
                  Holds(p, "beds") /\ count(res["beds"]) >= 1
        /\ \A p \in Treated :
              /\ pat[p].beds_at_start >= 1
              /\ pat[p].n = pat[p].beds_at_start
        /\ TotalStaff >= 1

\* treatments began at an occupancy of one bed and of two beds
C29_Witness ==
    /\ program = "typed"
    /\ \E p, q \in Treated : pat[p].n = 1 /\ pat[q].n = 2

----------------------------------------------------------------------------
(* The typed-staff script continued without a horizon.  The generator's    *)
(* loop never ends, so the run is cut after MaxArrivals patients: the      *)
(* interarrival draw that follows the last of them is so long that the     *)
(* next arrival lies beyond every event of the patients before it, and     *)
(* run()'s stop time lies beyond all of those.  The event loop processes   *)
(* the next due event whenever there is one, which is weak fairness of the *)
(* step relation.                                                          *)

MaxArrivals == 2    \* the patients that arrive before the long interarrival gap

\* a stop time no event of the first MaxArrivals patients can reach: each
\* arrives at most MaxDraw after the one before it and is treated for at
\* most MaxDraw, the treatments at worst one after the other
LiveHorizon == 2 * MaxArrivals * MaxDraw + 1

\* patient_generator's turn that spawns the last patient before the gap
LastArrival ==
    /\ program = "typed"
    /\ Fires("arrival")
    /\ patient_id + 1 = MaxArrivals
    /\ LET e == NextEvent
       IN /\ now' = e.t
          /\ patient_id' = patient_id + 1
          /\ pat' = Append(pat, NewPatient(e.t))
          /\ \E d \in DrawFrom(rng, interarrival_scale, {params.horizon}) :
                /\ rng' = d.rng
                /\ queue' = (queue \ {e})
                      \cup {Ev(e.t, URGENT, eid, "init", patient_id + 1, "")}
                      \cup {Ev(e.t + d.value, NORMAL, eid + 1, "arrival", 0, "")}
          /\ eid' = eid + 2
    /\ UNCHANGED <<hospital, program, params, phase, res, beds_in_use, patient_log,
                   occupancy_log, run_no, prev>>

\* the configurations with a bed and a member of staff of each type; the
\* draws do not depend on ALPHA, so one value of it is taken
InitLive ==
    /\ InitWith(FALSE, LiveHorizon)
    /\ program = "typed"
    /\ params.NUM_BEDS >= 1
    /\ params.NUM_SENIOR_STAFF >= 1
    /\ params.NUM_JUNIOR_STAFF >= 1
    /\ params.ALPHA = <<1, 4>>

NextLive ==
    \/ Setup
    \/ Source /\ patient_id' < MaxArrivals
    \/ LastArrival
    \/ TypedArrive
    \/ TypedRequestStaff
    \/ TypedStaffGranted
    \/ TypedStartTreatment
    \/ TypedDischarge
    \/ Released
    \/ Finish

SpecLive == InitLive /\ [][NextLive]_vars /\ WF_vars(NextLive)

\* p was given a bed
GivenBed(p) == p \in Patients /\ pat[p].pc \in {"wait_staff", "treat", "done"}

\* p was granted a member of staff, was treated and has left
Discharged(p) == p \in Patients /\ pat[p].pc = "done"

\* the patients that hold a bed and have not been discharged
Undischarged == {p \in Patients : GivenBed(p) /\ ~Discharged(p)}

\* every bed is held by a patient that waits for staff
AllBedsWaitForStaff ==
    /\ Started
    /\ count(res["beds"]) = res["beds"].capacity
    /\ \A p \in SeqToSet(res["beds"].users) : pat[p].pc = "wait_staff"

\* a unit of the pool is held by a patient that is not treated by it
Leaked(pool) ==
    \E p \in SeqToSet(res[pool].users) :
        pat[p].pc = "done" \/ (pat[p].pc = "treat" /\ staff_resource(p) # pool)

(* C26: liveness of the typed-staff model.  With at least one bed and at   *)
(* least one member of staff of each type, and finite treatments, in a run *)
(* that is not cut by a horizon every admitted patient is eventually       *)
(* granted a member of staff and eventually discharged, and the ward never *)
(* stays for ever in a state where every bed is held by a patient waiting  *)
(* for staff.  Being admitted is stable and the arrivals before the gap    *)
(* are finitely many, so this is: whenever an admitted patient has not     *)
(* been discharged, a state follows in which every admitted patient has    *)
(* been discharged, which is a state where no bed is held by a patient     *)
(* waiting for staff.                                                      *)

----------------------------------------------------------------------------
(* simulate_queue_evolution(arrival_rate, service_rate, num_beds,          *)
(* simulation_hours): one patient_arrival process, which starts one        *)
(* treat_patient process per turn of its loop and waits for it.  pat holds *)
(* one entry per turn of the loop; the request of turn k is k.             *)

QueueParams ==
    { [num_beds |-> b, arrival_rate |-> <<2, 1>>,
       effective_service_rate |-> <<3, 5>>, horizon |-> Horizon] :
         b \in 0..MaxBeds }

InitQueue ==
    /\ program = "queue"
    /\ params \in QueueParams
    /\ phase = "setup"
    /\ now = 0
    /\ queue = {}
    /\ eid = 0
    /\ patient_id = 0
    /\ pat = <<>>
    /\ res = <<>>
    /\ beds_in_use = 0
    /\ patient_log = <<>>
    /\ occupancy_log = <<>>
    /\ rng = [pos |-> 0, tape |-> <<>>, record |-> FALSE]
    /\ run_no = 1
    /\ prev = <<>>
    /\ hospital = [times |-> <<>>, queue_length |-> <<>>]

\* env; Hospital(env, num_beds, effective_service_rate);
\* env.process(patient_arrival(env, hospital)); env.run(until)
QueueSetup ==
    /\ program = "queue"
    /\ phase = "setup"
    /\ IF params.num_beds <= 0
       THEN /\ phase' = "error"
            /\ UNCHANGED <<res, queue, eid, hospital>>
       ELSE /\ phase' = "running"
            /\ res' = [pool \in {"beds"} |-> Resource(params.num_beds)]
            /\ hospital' = [times |-> <<>>, queue_length |-> <<>>]
            \* event 0 initialises patient_arrival, event 1 is run()'s stop event
            /\ queue' = {Ev(0, URGENT, 0, "q_init", 0, "")}
            /\ eid' = 2
    /\ UNCHANGED <<program, params, now, patient_id, pat, beds_in_use,
                   patient_log, occupancy_log, rng, run_no, prev>>

\* len(hospital.beds.queue)
queue_len == Len(res["beds"].put_queue)

\* patient_arrival from the top of its loop to `yield request`: record the
\* queue length and the time, request a bed
QueueArrive ==
    /\ program = "queue"
    /\ Fires("q_init") \/ Fires("q_arrival")
    /\ LET e == NextEvent
           k == patient_id + 1
           r2 == request(res["beds"], k)
           g == Granted(res["beds"], r2, "beds", e.t, eid)
       IN /\ now' = e.t
          /\ hospital' = [times |-> Append(hospital.times, e.t),
                          queue_length |-> Append(hospital.queue_length, queue_len)]
          /\ patient_id' = k
          /\ pat' = Append(pat, [pc |-> "wait_bed", arrival_time |-> e.t,
                                 treatment_time |-> -1])
          /\ res' = [res EXCEPT !["beds"] = r2]
          /\ queue' = (queue \ {e}) \cup g
          /\ eid' = eid + Cardinality(g)
    /\ UNCHANGED <<program, params, phase, beds_in_use, patient_log,
                   occupancy_log, rng, run_no, prev>>

\* patient_arrival after `yield request`: env.process(treat_patient(...))
\* schedules the new process's Initialize event, and the loop waits for it
QueueBedGranted ==
    /\ program = "queue"
    /\ Fires("req")
    /\ LET e == NextEvent
       IN /\ now' = e.t
          /\ pat' = [pat EXCEPT ![e.pid].pc = "wait_treatment"]
          /\ queue' = (queue \ {e}) \cup {Ev(e.t, URGENT, eid, "treat_init", e.pid, "")}
          /\ eid' = eid + 1
    /\ UNCHANGED <<program, params, phase, patient_id, res, beds_in_use,
                   patient_log, occupancy_log, rng, run_no, prev, hospital>>

\* Hospital.treat_patient up to its yield:
\* env.timeout(np.random.exponential(1 / self.service_rate))
treat_patient ==
    /\ program = "queue"
    /\ Fires("treat_init")
    /\ LET e == NextEvent
       IN /\ now' = e.t
          /\ \E d \in DrawFrom(rng, RInv(params.effective_service_rate), Draws) :
                /\ rng' = d.rng
                /\ pat' = [pat EXCEPT ![e.pid].pc = "treat",
                                      ![e.pid].treatment_time = d.value]
                /\ queue' = (queue \ {e}) \cup
                      {Ev(e.t + d.value, NORMAL, eid, "timeout", e.pid, "")}
          /\ eid' = eid + 1
    /\ UNCHANGED <<program, params, phase, patient_id, res, beds_in_use,
                   patient_log, occupancy_log, run_no, prev, hospital>>

\* treat_patient after its timeout: the generator returns, and the
\* process's own event is scheduled for the loop that waits for it
QueueTreated ==
    /\ program = "queue"
    /\ Fires("timeout")
    /\ LET e == NextEvent
       IN /\ now' = e.t
          /\ pat' = [pat EXCEPT ![e.pid].pc = "treated"]
          /\ queue' = (queue \ {e}) \cup {Ev(e.t, NORMAL, eid, "proc_end", e.pid, "")}
          /\ eid' = eid + 1
    /\ UNCHANGED <<program, params, phase, patient_id, res, beds_in_use,
                   patient_log, occupancy_log, rng, run_no, prev, hospital>>

\* patient_arrival after `yield env.process(...)`: leaving the with block
\* releases the bed, then env.timeout(np.random.exponential(1 / arrival_rate))
QueueLeave ==
    /\ program = "queue"
    /\ Fires("proc_end")
    /\ LET e == NextEvent
       IN /\ now' = e.t
          /\ res' = [res EXCEPT !["beds"] = release(res["beds"], e.pid)]
          /\ pat' = [pat EXCEPT ![e.pid].pc = "done"]
          /\ \E d \in DrawFrom(rng, RInv(params.arrival_rate), Draws) :
                /\ rng' = d.rng
                /\ queue' = (queue \ {e}) \cup
                      {Ev(e.t, NORMAL, eid, "rel", 0, "beds"),
                       Ev(e.t + d.value, NORMAL, eid + 1, "q_arrival", 0, "")}
          /\ eid' = eid + 2
    /\ UNCHANGED <<program, params, phase, patient_id, beds_in_use,
                   patient_log, occupancy_log, run_no, prev, hospital>>

NextQueue ==
    \/ QueueSetup
    \/ QueueArrive
    \/ QueueBedGranted
    \/ treat_patient
    \/ QueueTreated
    \/ QueueLeave
    \/ Released
    \/ Finish

SpecQueue == InitQueue /\ [][NextQueue]_vars

(* C30: in simulate_queue_evolution the single patient_arrival process     *)
(* requests a bed, holds it for the whole treatment and only then waits    *)
(* for the next arrival; so for any num_beds >= 1 at most one bed is ever  *)
(* in use, the bed wait queue is always empty, and every queue length      *)
(* recorded in hospital.queue_length is 0.                                 *)

====
